---- MODULE Spec2Model ----
(***************************************************************************)
(* Hawaii tourism dashboard: the analytics query engine with its cache     *)
(* table (backend/services/analytics.py, backend/config/database.py) and   *)
(* the forecast engine with its model/baseline fallback                    *)
(* (backend/services/ml_engine.py).                                        *)
(*                                                                         *)
(* Conventions.  Dates are day numbers, day 0 = 2024-01-01 (a Monday).     *)
(* datetime.utcnow() is the clock `now`, counted in ticks of               *)
(* 1/TicksPerHour hour.  A Python None is the string "None".  Floats with  *)
(* one decimal are integers in tenths.                                     *)
(***************************************************************************)
EXTENDS Integers, Sequences, FiniteSets, TLC

None == "None"

\* ------------------------------------------------------------------ bounds
MaxTime == 3            \* the clock stops ticking here
TicksPerHour == 2       \* clock resolution
CACHE_TTL_HOURS == 1    \* timedelta(hours=1)
CacheTtl == CACHE_TTL_HOURS * TicksPerHour

Workers == {"w1", "w2"} \* server processes, each request with its own session

\* ---------------------------------------------------------------- helpers
Max(a, b) == IF a >= b THEN a ELSE b

Range(s) == {s[i] : i \in 1..Len(s)}

RECURSIVE SumSeq(_)
SumSeq(s) == IF s = <<>> THEN 0 ELSE Head(s) + SumSeq(Tail(s))

\* The elements of s for which keep[i] holds, in order.
RECURSIVE FilterIdx(_, _, _)
FilterIdx(s, keep, i) ==
    IF i > Len(s) THEN <<>>
    ELSE (IF keep[i] THEN <<s[i]>> ELSE <<>>) \o FilterIdx(s, keep, i + 1)

\* ---------------------------------------------------------------- requests
\* models/data_models.py: AnalyticsRequest, fields in declaration order.
FieldOrder == <<"start_date", "end_date", "islands", "metrics", "group_by">>

FieldDefault ==
    [islands  |-> <<>>,
     metrics  |-> <<"arrivals", "occupancy", "spending">>,
     group_by |-> "month"]

\* A request body is the sequence of <<field, value>> pairs as the client
\* supplied them.  Pydantic builds the model from it: one value per declared
\* field, the default where the body has none; the supply order is gone.
BodyHas(body, f) == \E i \in 1..Len(body) : body[i][1] = f
BodyGet(body, f) == body[CHOOSE i \in 1..Len(body) : body[i][1] = f][2]

ParseRequest(body) ==
    [start_date |-> BodyGet(body, "start_date"),
     end_date   |-> BodyGet(body, "end_date"),
     islands    |-> IF BodyHas(body, "islands")
                    THEN BodyGet(body, "islands") ELSE FieldDefault.islands,
     metrics    |-> IF BodyHas(body, "metrics")
                    THEN BodyGet(body, "metrics") ELSE FieldDefault.metrics,
     group_by   |-> IF BodyHas(body, "group_by")
                    THEN BodyGet(body, "group_by") ELSE FieldDefault.group_by]

\* request.dict(): the <<field, value>> pairs in declaration order.
RequestDict(request) ==
    [i \in 1..Len(FieldOrder) |-> <<FieldOrder[i], request[FieldOrder[i]]>>]

\* Rank of a key in the lexicographic order json.dumps(sort_keys=True) uses.
KeyRank(k) ==
    CASE k = "end_date"   -> 1
      [] k = "group_by"   -> 2
      [] k = "islands"    -> 3
      [] k = "metrics"    -> 4
      [] k = "start_date" -> 5

\* json.dumps(d, sort_keys=True, default=str): the pairs ordered by key, a
\* date rendered by str() (its ISO text, here tagged day number), lists
\* rendered element by element in list order.
JsonValue(k, v) ==
    IF k \in {"start_date", "end_date"} THEN <<"date", v>> ELSE v

JsonDumps(d) ==
    LET sorted == SortSeq(d, LAMBDA a, b : KeyRank(a[1]) < KeyRank(b[1]))
    IN  [i \in 1..Len(sorted) |-> <<sorted[i][1], JsonValue(sorted[i][1], sorted[i][2])>>]

\* hashlib.md5(...).hexdigest(): a digest of the text; collisions ignored.
Md5(text) == <<"md5", text>>

\* ---------------------------------------------------------------- calendar
\* Days before each month of 2024; the calendar repeats with period
\* DaysPerYear in the model.
DaysPerYear == 335 + 31
MonthStart == <<0, 31, 60, 91, 121, 152, 182, 213, 244, 274, 305, 335>>

DayOfYear(d) == d % DaysPerYear
Year(d) == 2024 + (d \div DaysPerYear)
\* date.month
Month(d) == CHOOSE m \in 1..12 :
    /\ MonthStart[m] <= DayOfYear(d)
    /\ (m = 12 \/ DayOfYear(d) < MonthStart[m + 1])
\* date.weekday(): Monday is 0
Weekday(d) == d % 7

\* ------------------------------------------------------------------- state
VARIABLES
    now,                 \* datetime.utcnow(), in ticks
    visitor_arrivals,    \* table visitor_arrivals: sequence of rows, row id = index
    hotel_occupancy,     \* table hotel_occupancy
    economic_indicators, \* table economic_indicators
    analytics_cache,     \* table analytics_cache
    pc,                  \* per worker: "idle", or "caching" before cache_result
    cur,                 \* per worker: the call in flight (body, request, key, results)
    last,                \* the process_query call that returned most recently
    db_faulty            \* whether the database raises at will in this run

storeVars == <<visitor_arrivals, hotel_occupancy, economic_indicators>>

Islands == <<"Oahu", "Maui", "Kauai", "Hawaii", "Molokai", "Lanai">>
IslandRank(i) == CHOOSE k \in 1..Len(Islands) : Islands[k] = i

\* ---------------------------------------------------------------- numbers
RECURSIVE GCD(_, _)
GCD(a, b) == IF b = 0 THEN a ELSE GCD(b, a % b)

\* A Python float that is the quotient of two integers, kept exact.
Ratio(n, d) ==
    LET g == GCD(IF n < 0 THEN -n ELSE n, d)
    IN  [num |-> n \div g, den |-> d \div g]

\* Python's n / d: it raises ZeroDivisionError for d = 0.
ZeroDivisionError == [raised |-> "ZeroDivisionError"]
TrueDiv(n, d) == IF d = 0 THEN ZeroDivisionError ELSE Ratio(n, d)

\* int(x) of a float n/d (d > 0): truncation towards zero.
IntOf(n, d) == IF n >= 0 THEN n \div d ELSE -((-n) \div d)

\* round(n/d) to the nearest integer, ties to even (d > 0, n >= 0).
RoundDiv(n, d) ==
    LET q == n \div d
        r == n % d
    IN  IF 2 * r > d THEN q + 1
        ELSE IF 2 * r < d THEN q
        ELSE IF q % 2 = 0 THEN q ELSE q + 1

RECURSIVE SetToSeq(_)
SetToSeq(S) ==
    IF S = {} THEN <<>>
    ELSE LET x == CHOOSE x \in S : TRUE IN <<x>> \o SetToSeq(S \ {x})

MinOf(S) == CHOOSE x \in S : \A y \in S : x <= y
MaxOf(S) == CHOOSE x \in S : \A y \in S : x >= y

\* --------------------------------------------------------------- analytics
InRange(row, request) ==
    /\ row.date >= request.start_date
    /\ row.date <= request.end_date

\* `if request.islands: query.filter(island.in_(...))`
IslandOk(row, request) ==
    request.islands = <<>> \/ row.island \in Range(request.islands)

MatchingAnyIsland(table, request) ==
    FilterIdx(table, [i \in 1..Len(table) |-> InRange(table[i], request)], 1)
Matching(table, request) ==
    FilterIdx(table,
              [i \in 1..Len(table) |->
                  InRange(table[i], request) /\ IslandOk(table[i], request)], 1)

DateMatching(table, request) ==
    FilterIdx(table, [i \in 1..Len(table) |-> InRange(table[i], request)], 1)

\* The GROUP BY key of an arrivals row.
ArrivalGroup(row, request) ==
    IF request.group_by = "month"
    THEN <<Year(row.date), Month(row.date), IslandRank(row.island)>>
    ELSE <<0, row.date, IslandRank(row.island)>>

GroupLess(a, b) ==
    \/ a[1] < b[1]
    \/ a[1] = b[1] /\ a[2] < b[2]
    \/ a[1] = b[1] /\ a[2] = b[2] /\ a[3] < b[3]

\* analytics.py analyze_arrivals
TOP_ORIGINS_LIMIT == 10

\* The divisor without its floor of 1.
GroupDivisorUnguarded(results) == Len(results)

\* max(1, len(results)), the divisor of lines 96 and 175.
GroupDivisor(results) == Max(1, Len(results))

\* An analysis whose division raises gives ZeroDivisionError for its block.

AnalyzeArrivals(request) ==
    LET rows    == Matching(visitor_arrivals, request)
        keys    == SortSeq(SetToSeq({ArrivalGroup(rows[i], request) : i \in 1..Len(rows)}),
                           GroupLess)
        inGroup(k) == FilterIdx(rows,
                        [i \in 1..Len(rows) |-> ArrivalGroup(rows[i], request) = k], 1)
        results == [g \in 1..Len(keys) |->
                      LET grp == inGroup(keys[g])
                      IN  [date     |-> grp[1].date,
                           island   |-> grp[1].island,
                           arrivals |-> SumSeq([i \in 1..Len(grp) |-> grp[i].arrival_count])]]
        \* the origin query filters by date and origin only
        orows   == FilterIdx(visitor_arrivals,
                      [i \in 1..Len(visitor_arrivals) |->
                          /\ InRange(visitor_arrivals[i], request)
                          /\ visitor_arrivals[i].origin_state # None], 1)
        origins == SetToSeq({orows[i].origin_state : i \in 1..Len(orows)})
        ototal(o) == SumSeq([i \in 1..Len(orows) |->
                        IF orows[i].origin_state = o THEN orows[i].arrival_count ELSE 0])
        ranked  == SortSeq([i \in 1..Len(origins) |->
                              [state |-> origins[i], arrivals |-> ototal(origins[i])]],
                           LAMBDA a, b : a.arrivals > b.arrivals)
        Block(series) ==
            LET total   == SumSeq([g \in 1..Len(series) |-> series[g].arrivals])
                average == TrueDiv(total, GroupDivisor(series))
            IN  IF average = ZeroDivisionError THEN ZeroDivisionError ELSE
                [time_series            |-> series,
                 total_arrivals         |-> total,
                 top_origins            |-> SubSeq(ranked, 1,
                                              IF Len(ranked) < TOP_ORIGINS_LIMIT
                                              THEN Len(ranked) ELSE TOP_ORIGINS_LIMIT),
                 average_daily_arrivals |-> average]
    IN  CHOOSE block \in {Block(series) : series \in {results}} : TRUE

\* SQL avg() of a column over a non-empty list of rows, rounded to the
\* column's decimals (values are kept in fixed point, so the result is too).
AvgOf(vals) == RoundDiv(SumSeq(vals), Len(vals))

\* `round(avg, n) if avg else 0`: avg() over no rows is None, and None and
\* 0.0 are both falsy.
AvgOrZero(vals) == IF vals = <<>> THEN 0 ELSE AvgOf(vals)

\* analytics.py analyze_occupancy
AnalyzeOccupancy(request) ==
    LET rows    == Matching(hotel_occupancy, request)
        keys    == SortSeq(SetToSeq({<<0, rows[i].date, IslandRank(rows[i].island)>> :
                                        i \in 1..Len(rows)}), GroupLess)
        inGroup(k) == FilterIdx(rows,
                        [i \in 1..Len(rows) |->
                            <<0, rows[i].date, IslandRank(rows[i].island)>> = k], 1)
        series  == [g \in 1..Len(keys) |->
                      LET grp == inGroup(keys[g])
                      IN  [date           |-> grp[1].date,
                           island         |-> grp[1].island,
                           occupancy_rate |-> AvgOf([i \in 1..Len(grp) |-> grp[i].occupancy_rate]),
                           adr            |-> AvgOf([i \in 1..Len(grp) |-> grp[i].adr])]]
        \* overall_stats filters by date only
        orows   == DateMatching(hotel_occupancy, request)
        occ     == [i \in 1..Len(orows) |-> orows[i].occupancy_rate]
    IN  [time_series       |-> series,
         average_occupancy |-> AvgOrZero(occ),
         average_adr       |-> AvgOrZero([i \in 1..Len(orows) |-> orows[i].adr]),
         peak_occupancy    |-> IF occ = <<>> THEN 0 ELSE MaxOf(Range(occ)),
         low_occupancy     |-> IF occ = <<>> THEN 0 ELSE MinOf(Range(occ))]

\* The trend label with >= for >.
SpendingTrendAtLeast(spending_data) ==
    IF spending_data[Len(spending_data)].visitor_spending_millions
           >= spending_data[1].visitor_spending_millions
    THEN "increasing" ELSE "stable"

\* analyze_spending, line 181: the trend label of the records in date order.
SpendingTrend(spending_data) ==
    IF /\ Len(spending_data) > 1
       /\ spending_data[Len(spending_data)].visitor_spending_millions
              > spending_data[1].visitor_spending_millions
    THEN "increasing" ELSE "stable"

\* analytics.py analyze_spending
AnalyzeSpending(request) ==
    LET spending_data == SortSeq(DateMatching(economic_indicators, request),
                                 LAMBDA a, b : a.date < b.date)
        n     == Len(spending_data)
        total == SumSeq([i \in 1..n |-> spending_data[i].visitor_spending_millions])
        avg_monthly_spending == TrueDiv(total, GroupDivisor(spending_data))
    IN  IF n = 0
        THEN [error |-> "No spending data available for this period"]
        ELSE IF avg_monthly_spending = ZeroDivisionError THEN ZeroDivisionError
        ELSE [time_series |-> [i \in 1..n |->
                                  [date |-> spending_data[i].date,
                                   spending_millions |->
                                       spending_data[i].visitor_spending_millions]],
              total_spending_millions           |-> total,
              average_monthly_spending_millions |->
                  RoundDiv(avg_monthly_spending.num, avg_monthly_spending.den),
              spending_trend |-> SpendingTrend(spending_data)]

\* dict.get(key, default)
Get(d, key, default) == IF key \in DOMAIN d THEN d[key] ELSE default

\* analytics.py generate_insights; occupancy is in tenths of a percent and
\* spending in tenths of a million.  Where the division of line 202 raises
\* the list is <<ZeroDivisionError>>.
HIGH_OCCUPANCY == 80
LOW_OCCUPANCY == 60

\* The sentences with the average-daily-arrivals sentence put first.
InsightOrderDailyFirst(top, occ, spend, daily) == daily \o top \o occ \o spend

\* The order of the insights.append calls (lines 190, 195/197, 205, 209).
InsightOrder(top, occ, spend, daily) == top \o occ \o spend \o daily

GenerateInsights(data) ==
    LET top ==
            IF "arrivals" \in DOMAIN data /\ data["arrivals"].top_origins # <<>>
            THEN <<[kind     |-> "top_origin",
                    state    |-> data["arrivals"].top_origins[1].state,
                    arrivals |-> data["arrivals"].top_origins[1].arrivals]>>
            ELSE <<>>
        avg_occ == Get(data["occupancy"], "average_occupancy", 0)
        occ ==
            IF "occupancy" \in DOMAIN data
            THEN IF avg_occ > HIGH_OCCUPANCY * 10
                 THEN <<[kind |-> "high_occupancy", value |-> avg_occ]>>
                 ELSE IF avg_occ < LOW_OCCUPANCY * 10
                      THEN <<[kind |-> "low_occupancy", value |-> avg_occ]>>
                      ELSE <<>>
            ELSE <<>>
        total_spending == Get(data["spending"], "total_spending_millions", 0)
        total_arrivals == Get(data["arrivals"], "total_arrivals", 1)
        \* (total_spending * 1_000_000) / total_arrivals, shown with "{:.0f}"
        spend_per_visitor ==
            IF total_arrivals > 0
            THEN TrueDiv(total_spending * 100000, total_arrivals)
            ELSE Ratio(0, 1)
        raises ==
            /\ "spending" \in DOMAIN data /\ "arrivals" \in DOMAIN data
            /\ spend_per_visitor = ZeroDivisionError
        spend ==
            IF "spending" \in DOMAIN data /\ "arrivals" \in DOMAIN data
            THEN IF spend_per_visitor.num > 0
                 THEN <<[kind  |-> "spend_per_visitor",
                         value |-> RoundDiv(spend_per_visitor.num, spend_per_visitor.den)]>>
                 ELSE <<>>
            ELSE <<>>
        avg_daily == Get(data["arrivals"], "average_daily_arrivals", Ratio(0, 1))
        daily ==
            IF "arrivals" \in DOMAIN data
            THEN <<[kind |-> "avg_daily", value |-> IntOf(avg_daily.num, avg_daily.den)]>>
            ELSE <<>>
    IN  IF raises THEN <<ZeroDivisionError>> ELSE InsightOrder(top, occ, spend, daily)

\* ------------------------------------------------------------------- cache
\* database.py AnalyticsCacheDB: query_hash = Column(String, unique=True, ...)
QueryHashUniqueOff == FALSE
QueryHashUnique == TRUE

\* analytics.py generate_cache_key
GenerateCacheKeyClock(request) == Md5(<<JsonDumps(RequestDict(request)), now>>)
GenerateCacheKey(request) == Md5(JsonDumps(RequestDict(request)))

\* Row ids of the rows a cache lookup selects: the hash matches and
\* expires_at > utcnow().
ValidRows(cache_key) ==
    {i \in 1..Len(analytics_cache) :
        /\ analytics_cache[i].query_hash = cache_key
        /\ analytics_cache[i].expires_at > now}

\* analytics.py get_cached_result: .first() of the selected rows, NoResult
\* for None.
NoResult == [request |-> None]

GetCachedResultAnyKey(cache_key) ==
    LET rows == {i \in 1..Len(analytics_cache) : analytics_cache[i].expires_at > now}
    IN  IF rows = {} THEN NoResult ELSE analytics_cache[MinOf(rows)].results
GetCachedResult(cache_key) ==
    IF ValidRows(cache_key) = {} THEN NoResult
    ELSE analytics_cache[MinOf(ValidRows(cache_key))].results

\* The insert breaks the unique index and raises IntegrityError.
UniqueViolation(cache_key) ==
    /\ QueryHashUnique
    /\ \E i \in 1..Len(analytics_cache) : analytics_cache[i].query_hash = cache_key

\* analytics.py cache_result: the table after add + commit; after an insert
\* that breaks the unique index, which the except clause prints and rolls
\* back, the table is as before.
CacheResultUpsert(cache_key, results) ==
    LET row == [query_hash |-> cache_key, results |-> results,
                expires_at |-> now + CacheTtl]
    IN  IF \E i \in 1..Len(analytics_cache) : analytics_cache[i].query_hash = cache_key
        THEN [i \in 1..Len(analytics_cache) |->
                 IF analytics_cache[i].query_hash = cache_key
                 THEN row ELSE analytics_cache[i]]
        ELSE Append(analytics_cache, row)
CacheResult(cache_key, results) ==
    LET row == [query_hash |-> cache_key, results |-> results,
                expires_at |-> now + CacheTtl]
    IN  IF /\ QueryHashUnique
           /\ \E i \in 1..Len(analytics_cache) : analytics_cache[i].query_hash = cache_key
        THEN analytics_cache
        ELSE Append(analytics_cache, row)

Metrics == {"arrivals", "occupancy", "spending"}

\* What the caller gets when process_query raises: query_analytics turns any
\* exception into HTTPException(status_code=500).
QueryFailure == [status_code |-> 500]

\* analytics.py process_query, lines 25-40: the result of a cache miss, or
\* the failure when a division in an analysis raises.
ComputeResults(request) ==
    LET asked  == Metrics \cap Range(request.metrics)
        blocks == [m \in asked |->
                     CASE m = "arrivals"  -> AnalyzeArrivals(request)
                       [] m = "occupancy" -> AnalyzeOccupancy(request)
                       [] m = "spending"  -> AnalyzeSpending(request)]
        WithInsights(data, insights) ==
            IF insights = <<ZeroDivisionError>>
            THEN QueryFailure
            ELSE [request      |-> request,
                  generated_at |-> now,
                  data         |-> data,
                  insights     |-> insights]
        WithData(data) ==
            IF \E m \in asked : data[m] = ZeroDivisionError
            THEN QueryFailure
            ELSE CHOOSE r \in {WithInsights(data, insights) :
                                  insights \in {GenerateInsights(data)}} : TRUE
    \* the blocks and the insights are computed once, as the local variables
    \* of lines 25-40 are
    IN  CHOOSE r \in {WithData(data) : data \in {blocks}} : TRUE

\* The analysis passes a cache miss runs.
Passes(request) ==
    {"analyze_" \o m : m \in Metrics \cap Range(request.metrics)} \cup {"generate_insights"}

\* The order of the metric blocks in process_query (lines 31-38).
MetricRank(m) ==
    CASE m = "arrivals" -> 1 [] m = "occupancy" -> 2 [] m = "spending" -> 3

\* The steps of process_query that query the store: the cache lookup and the
\* requested metric blocks.
QuerySteps(request) == {"lookup"} \cup (Metrics \cap Range(request.metrics))

\* The blocks finished before step m raises.
BlocksBefore(request, m) ==
    IF m = "lookup" THEN {}
    ELSE {x \in Metrics \cap Range(request.metrics) : MetricRank(x) < MetricRank(m)}

\* The analyses started when step m raises.
PassesUntil(request, m) ==
    IF m = "lookup" THEN {}
    ELSE {"analyze_" \o x : x \in BlocksBefore(request, m) \cup {m}}

\* A store query of step m raises: process_query has no handler, so the
\* exception leaves it with the blocks computed so far dropped.
QueryRaisedPartial(request, m) ==
    [request      |-> request,
     generated_at |-> now,
     data         |-> [x \in BlocksBefore(request, m) |->
                         CASE x = "arrivals"  -> AnalyzeArrivals(request)
                           [] x = "occupancy" -> AnalyzeOccupancy(request)
                           [] x = "spending"  -> AnalyzeSpending(request)],
     insights     |-> <<>>]
QueryRaised(request, m) == QueryFailure

\* The insert or the commit of cache_result raises: the except clause prints
\* and rolls back, and process_query returns its results (lines 239-241, 44).
WriteRaisedPropagates(results) == QueryFailure
WriteRaised(results) == results

\* ---------------------------------------------------------------- forecast
VARIABLES
    today,              \* date.today()
    models,             \* MLEngine.models: the islands with a model in the registry
    model_files,        \* the islands with a persisted data/models/prophet_<island>.pkl
    tourism_forecasts,  \* table tourism_forecasts: the committed rows
    session_new,        \* rows the engine's session has added and not committed
    fret,               \* the generate_forecast call that ended most recently
    fprev               \* direct generate_baseline_forecast calls: the one before

forecastVars ==
    <<today, models, model_files, tourism_forecasts, session_new, fret, fprev>>

BASELINE_DEFAULT == 5000    \* `.scalar() or 5000`
BASELINE_WINDOW == 30       \* timedelta(days=30)
PAD_PREDICTED == 5000
PAD_LOWER == 4500
PAD_UPPER == 5500

\* The rows train_prophet_model reads: all arrivals of the island.
History(island) ==
    FilterIdx(visitor_arrivals,
              [i \in 1..Len(visitor_arrivals) |-> visitor_arrivals[i].island = island], 1)

\* The dates the training frame has a row for (group_by date).
HistoryDates(island) ==
    {History(island)[i].date : i \in 1..Len(History(island))}

\* model.fit raises when the environment makes it, and always on a frame of
\* fewer than two rows.
FitRaises(island, env) ==
    env.fit = "raise" \/ Cardinality(HistoryDates(island)) < 2

\* ml_engine.py train_prophet_model under the outcomes `env` of its store
\* query, of model.fit and of joblib.dump: the registry and the persisted
\* files it leaves, and whether it returns the model (else None).
TrainProphetModel(island, env) ==
    IF env.query = "raise" \/ History(island) = <<>> \/ FitRaises(island, env)
    THEN [models |-> models, model_files |-> model_files, returned |-> FALSE]
    ELSE IF env.dump = "raise"
    THEN [models |-> models \cup {island}, model_files |-> model_files, returned |-> FALSE]
    ELSE [models |-> models \cup {island}, model_files |-> model_files \cup {island},
          returned |-> TRUE]

\* What the steps of a training do; a step after one that raised is not run.
TrainEnvs ==
    {e \in [query : {"ok", "raise"}, fit : {"ok", "raise"}, dump : {"ok", "raise"}] :
        /\ e.query = "raise" => e.fit = "ok" /\ e.dump = "ok"
        /\ e.fit = "raise" => e.dump = "ok"}

\* max(0, int(x)) of a model output x = h/2.
ClampNoFloor(h) == IntOf(h, 2)
Clamp(h) == Max(0, IntOf(h, 2))

\* One day of the model path (lines 95-113): `row` is the model's output for
\* the day in halves, (yhat_lower, yhat, yhat_upper); idx and len decide
\* between the model's values and the fixed padding triple.
ModelEntry(island, i, row, idx, len) ==
    [date               |-> today + i,
     predicted_arrivals |-> IF idx < len THEN Clamp(row.yhat) ELSE PAD_PREDICTED,
     confidence_lower   |-> IF idx < len THEN Clamp(row.yhat_lower) ELSE PAD_LOWER,
     confidence_upper   |-> IF idx < len THEN Clamp(row.yhat_upper) ELSE PAD_UPPER,
     island             |-> island]

\* The TourismForecastDB row added for an entry (lines 115-124).
ForecastRow(entry) ==
    [forecast_date      |-> today,
     target_date        |-> entry.date,
     island             |-> entry.island,
     predicted_arrivals |-> entry.predicted_arrivals,
     confidence_lower   |-> entry.confidence_lower,
     confidence_upper   |-> entry.confidence_upper,
     model_name         |-> "prophet"]

\* ml_engine.py generate_baseline_forecast, the trailing average: avg() of
\* arrival_count over the island's rows of the last 30 days, `or 5000` when
\* there is none or it is 0.  A pair <<numerator, denominator>>.
RecentDataAt(island, day) ==
    LET rows == FilterIdx(visitor_arrivals,
                  [i \in 1..Len(visitor_arrivals) |->
                      /\ visitor_arrivals[i].island = island
                      /\ visitor_arrivals[i].date >= day - BASELINE_WINDOW], 1)
        total == SumSeq([i \in 1..Len(rows) |-> rows[i].arrival_count])
    IN  IF rows = <<>> \/ total = 0 THEN <<BASELINE_DEFAULT, 1>> ELSE <<total, Len(rows)>>

\* The trailing average without the `or 5000`.
RecentDataNoDefault(island) ==
    LET rows == FilterIdx(visitor_arrivals,
                  [i \in 1..Len(visitor_arrivals) |->
                      /\ visitor_arrivals[i].island = island
                      /\ visitor_arrivals[i].date >= today - BASELINE_WINDOW], 1)
        total == SumSeq([i \in 1..Len(rows) |-> rows[i].arrival_count])
    IN  IF rows = <<>> THEN <<0, 1>> ELSE <<total, Len(rows)>>
RecentData(island) == RecentDataAt(island, today)

\* The seasonal factors with peak and shoulder season exchanged.
SeasonalFactorExchanged(d) ==
    IF Month(d) \in {12, 1, 2} THEN 11
    ELSE IF Month(d) \in {6, 7, 8} THEN 12 ELSE 10

\* seasonal_factor, in tenths
SeasonalFactor(d) ==
    IF Month(d) \in {12, 1, 2} THEN 12
    ELSE IF Month(d) \in {6, 7, 8} THEN 11 ELSE 10

\* weekend_factor, in tenths
WeekendFactor(d) == IF Weekday(d) >= 5 THEN 11 ELSE 10

\* int(recent_data * seasonal_factor * weekend_factor * jitter), the jitter
\* 0.95 + 0.1 * random() in thousandths.
BaselinePredicted(island, d, jitter) ==
    LET r == RecentData(island)
    IN  IntOf(r[1] * SeasonalFactor(d) * WeekendFactor(d) * jitter, r[2] * 10 * 10 * 1000)

\* int(predicted * 0.85)
LowerPct == 85
UpperPct == 115
BaselineLower(predicted) == IntOf(predicted * LowerPct, 100)

\* The largest power of two not above n, for n >= 1.
RECURSIVE Pow2Floor(_)
Pow2Floor(n) == IF n < 2 THEN 1 ELSE 2 * Pow2Floor(n \div 2)

\* int(predicted * 1.15) in double arithmetic.  The double nearest 1.15 lies
\* 0.4 * 2^-52 below it, so where predicted * 1.15 is a whole number W the
\* product lies predicted * 0.4 * 2^-52 below W, and it rounds to the double
\* below W (int() then gives W - 1) when that exceeds half the spacing of
\* the doubles under W: int(100 * 1.15) is 114, int(20 * 1.15) is 23.
BaselineUpper(predicted) ==
    LET exact == IntOf(predicted * UpperPct, 100)
    IN  IF /\ predicted > 0
           /\ (predicted * UpperPct) % 100 = 0
           /\ 4 * predicted > 5 * Pow2Floor(exact)
        THEN exact - 1 ELSE exact

\* generate_baseline_forecast: the list for the jitters of the days.
GenerateBaselineForecast(island, days_ahead, jitter) ==
    [k \in 1..days_ahead |->
        LET d == today + (k - 1)
            predicted == BaselinePredicted(island, d, jitter[k])
        IN  [date               |-> d,
             predicted_arrivals |-> predicted,
             confidence_lower   |-> BaselineLower(predicted),
             confidence_upper   |-> BaselineUpper(predicted),
             island             |-> island]]

\* ------------------------------------------------------------- the inputs
\* Request bodies the clients send: the same fields in two supply orders, and
\* a body that leaves the optional fields to their defaults.
Bodies ==
    {<<<<"start_date", 0>>, <<"end_date", 1>>, <<"islands", <<"Oahu">>>>,
       <<"metrics", <<"arrivals", "spending">>>>, <<"group_by", "day">>>>,
     <<<<"group_by", "day">>, <<"metrics", <<"arrivals", "spending">>>>,
       <<"islands", <<"Oahu">>>>, <<"end_date", 1>>, <<"start_date", 0>>>>,
     <<<<"start_date", 0>>, <<"end_date", 40>>>>}


\* The tables as the collector left them.
SeededArrivals ==
    <<[date |-> 0, island |-> "Oahu", origin_state |-> "California", arrival_count |-> 1000],
      [date |-> 0, island |-> "Oahu", origin_state |-> "Texas", arrival_count |-> 500],
      [date |-> 1, island |-> "Oahu", origin_state |-> None, arrival_count |-> 700],
      [date |-> 35, island |-> "Maui", origin_state |-> "Texas", arrival_count |-> 800]>>

SeededOccupancy ==
    <<[date |-> 0, island |-> "Oahu", occupancy_rate |-> 850, adr |-> 25000],
      [date |-> 1, island |-> "Maui", occupancy_rate |-> 700, adr |-> 35000]>>

SeededIndicators ==
    <<[date |-> 0, visitor_spending_millions |-> 1500],
      [date |-> 31, visitor_spending_millions |-> 1600]>>

\* ----------------------------------------------------------------- actions
NoCall == [request |-> None]

InitCache ==
    /\ now = 0
    /\ visitor_arrivals = SeededArrivals
    /\ hotel_occupancy = SeededOccupancy
    /\ economic_indicators = SeededIndicators
    /\ analytics_cache = <<>>
    /\ pc = [w \in Workers |-> "idle"]
    /\ cur = [w \in Workers |-> NoCall]
    /\ last = NoCall
    /\ db_faulty = FALSE

\* What a returning call leaves in `last`: its request, what it returned, the
\* analysis passes it ran, when it started, and which of its steps raised
\* ("none", "query" or "write").
Returned(request, results, passes, start, fault) ==
    last' = [request |-> request, results |-> results, passes |-> passes,
             start |-> start, fault |-> fault]

\* process_query up to the call of cache_result (lines 17-40): the key, the
\* lookup, and on a miss the analyses and the insights; or one of its store
\* queries raises.
ProcessQueryBegin(w, body) ==
    LET request   == ParseRequest(body)
        cache_key == GenerateCacheKey(request)
        cached    == GetCachedResult(cache_key)
    IN  /\ pc[w] = "idle"
        /\ \/ /\ IF cached # NoResult
                 THEN /\ Returned(request, cached, {}, now, "none")
                      /\ UNCHANGED <<pc, cur>>
                 ELSE \E results \in {ComputeResults(request)} :
                      IF results = QueryFailure
                      THEN \* the exception leaves process_query before cache_result
                           /\ Returned(request, QueryFailure, Passes(request), now, "division")
                           /\ UNCHANGED <<pc, cur>>
                      ELSE /\ pc' = [pc EXCEPT ![w] = "caching"]
                           /\ cur' = [cur EXCEPT ![w] =
                                         [body |-> body, request |-> request,
                                          cache_key |-> cache_key,
                                          results |-> results,
                                          start |-> now]]
                           /\ UNCHANGED last
           \/ /\ db_faulty
              /\ \E m \in QuerySteps(request) :
                    /\ m # "lookup" => cached = NoResult
                    /\ Returned(request, QueryRaised(request, m),
                                PassesUntil(request, m), now, "query")
              /\ UNCHANGED <<pc, cur>>
        /\ UNCHANGED <<now, analytics_cache, db_faulty>>
        /\ UNCHANGED storeVars
        /\ UNCHANGED forecastVars

\* process_query from cache_result to the return (lines 42-44).
ProcessQueryEnd(w) ==
    /\ pc[w] = "caching"
    /\ \E raises \in (IF db_faulty THEN BOOLEAN ELSE {FALSE}) :
          LET table  == IF raises THEN analytics_cache
                        ELSE CacheResult(cur[w].cache_key, cur[w].results)
              failed == raises \/ UniqueViolation(cur[w].cache_key)
          IN  /\ analytics_cache' = table
              /\ Returned(cur[w].request,
                          IF failed THEN WriteRaised(cur[w].results) ELSE cur[w].results,
                          Passes(cur[w].request), cur[w].start,
                          IF failed THEN "write" ELSE "none")
    /\ pc' = [pc EXCEPT ![w] = "idle"]
    /\ cur' = [cur EXCEPT ![w] = NoCall]
    /\ UNCHANGED <<now, db_faulty>>
    /\ UNCHANGED storeVars
    /\ UNCHANGED forecastVars

\* Time passes.
Tick ==
    /\ now < MaxTime
    /\ now' = now + 1
    /\ UNCHANGED <<analytics_cache, pc, cur, last, db_faulty>>
    /\ UNCHANGED storeVars
    /\ UNCHANGED forecastVars

\* ------------------------------------------------------- forecast actions
MaxDaysAhead == 2       \* the horizons asked for are 1..MaxDaysAhead
MaxForecastRows == 3    \* rows the forecast table and the session hold together

ForecastIslands == {"Oahu", "Maui"}

\* 2024-01-07, a Sunday in peak season, with arrivals in the trailing
\* window and a Monday after it; 2024-06-02, a Sunday in shoulder season,
\* with none.
TodayChoices == {6, 153}

\* Jitters of a wider range, 0.9 and 1.1.
JitterChoicesWide == {900, 1100}

\* jitter = 0.95 + 0.1 * random(), in thousandths
JitterChoices == {950, 1049}

\* The jitters of the days of a call: all at one end of the range.
JitterSeqs(days_ahead) ==
    {[k \in 1..days_ahead |-> j] : j \in JitterChoices}

\* What model.predict gives for a day, in halves: its interval contains its
\* point forecast, and any of them may be negative.
PredictRows ==
    {[nan |-> FALSE, yhat_lower |-> -3, yhat |-> -1, yhat_upper |-> 3],
     [nan |-> FALSE, yhat_lower |-> 1, yhat |-> 3, yhat_upper |-> 5]}

\* A day whose values int() refuses.
NanRow == [nan |-> TRUE, yhat_lower |-> 0, yhat |-> 0, yhat_upper |-> 0]

\* The frames model.predict gives for the days of a call: sound, or with one
\* day int() refuses.
PredictSeries(days_ahead) ==
    {[k \in 1..days_ahead |-> IF k = nanAt THEN NanRow ELSE row] :
        row \in PredictRows, nanAt \in 0..days_ahead}

\* The frames model.predict gives: the history's rows and then the days of
\* the call, as make_future_dataframe asks; or, the edge case line 98
\* provides for, a frame with fewer rows than the horizon.
PredictFrames(island, days_ahead) ==
    {[k \in 1..Cardinality(HistoryDates(island)) |->
         [nan |-> FALSE, yhat_lower |-> 1, yhat |-> 3, yhat_upper |-> 5]] \o series :
        series \in PredictSeries(days_ahead)}
    \cup {[k \in 1..n |-> row] : row \in PredictRows, n \in 0..(days_ahead - 1)}

\* forecast.iloc[idx] raises IndexError outside -len .. len - 1.
IlocRaises(frame, idx) == idx >= Len(frame) \/ idx < -Len(frame)

\* forecast.iloc[idx]: a negative idx counts from the end of the frame.
Iloc(frame, idx) ==
    IF IlocRaises(frame, idx) THEN NanRow
    ELSE IF idx >= 0 THEN frame[idx + 1] ELSE frame[Len(frame) + idx + 1]

NoForecast == [island |-> None]

\* What an ending generate_forecast call leaves in `fret`: its arguments, the
\* path that produced the list ("prophet", "baseline", or "raised" when an
\* exception reached the caller), the list, what failed on the way, the
\* jitters drawn for a baseline list, and the steps the call took in order
\* ("load", "train", "predict", "baseline").
ForecastReturns(island, days_ahead, path, forecast, events, jitter, steps) ==
    fret' = [island |-> island, days_ahead |-> days_ahead, path |-> path,
             forecast |-> forecast, events |-> events, jitter |-> jitter,
             steps |-> steps]

\* The except clause returning the days staged before the failure, filled up
\* from the baseline list.
ExceptReturnsStaged(staged, baseline) ==
    staged \o SubSeq(baseline, Len(staged) + 1, Len(baseline))

\* Line 131: the except clause returns the baseline list; forecast_data, the
\* days staged before the failure, is dropped.
ExceptReturns(staged, baseline) == baseline

\* `return self.generate_baseline_forecast(island, days_ahead)` in the except
\* clause (line 131): its store query may raise, and then nothing catches it.
BaselineInExcept(island, days_ahead, events, steps, staged) ==
    \/ ForecastReturns(island, days_ahead, "raised", <<>>,
                       events \cup {"baseline_query_raised"}, <<>>,
                       Append(steps, "baseline"))
    \/ \E jitter \in JitterSeqs(days_ahead) :
          ForecastReturns(island, days_ahead, "baseline",
              ExceptReturns(staged, GenerateBaselineForecast(island, days_ahead, jitter)),
              events, jitter, Append(steps, "baseline"))

\* The same call inside the try block (line 84): what it raises is caught by
\* the except clause, which calls it again.
BaselineInTry(island, days_ahead, events, steps) ==
    \/ BaselineInExcept(island, days_ahead,
                        events \cup {"baseline_query_raised_in_try"},
                        Append(steps, "baseline"), <<>>)
    \/ \E jitter \in JitterSeqs(days_ahead) :
          ForecastReturns(island, days_ahead, "baseline",
              GenerateBaselineForecast(island, days_ahead, jitter), events, jitter,
              Append(steps, "baseline"))

\* Lines 86-126 of generate_forecast, with the model in the registry.
PredictAndStore(island, days_ahead, events, steps) ==
    \/ \* make_future_dataframe or predict raises
       /\ BaselineInExcept(island, days_ahead, events \cup {"predict_raised"},
                           Append(steps, "predict"), <<>>)
       /\ UNCHANGED <<tourism_forecasts, session_new>>
    \/ \E frame \in PredictFrames(island, days_ahead) :
        LET len     == Len(frame)
            idx(k)  == len - days_ahead + (k - 1)
            entries == [k \in 1..days_ahead |->
                          ModelEntry(island, k - 1, Iloc(frame, idx(k)), idx(k), len)]
            rows    == [k \in 1..days_ahead |-> ForecastRow(entries[k])]
            bad     == {k \in 1..days_ahead :
                           IlocRaises(frame, idx(k)) \/ Iloc(frame, idx(k)).nan}
            seen    == events \cup (IF len < days_ahead THEN {"short_frame"} ELSE {})
        IN  IF bad = {}
            THEN \* every row added, then commit
                 /\ tourism_forecasts' = tourism_forecasts \o session_new \o rows
                 /\ session_new' = <<>>
                 /\ ForecastReturns(island, days_ahead, "prophet", entries, seen, <<>>,
                                    Append(steps, "predict"))
            ELSE \* iloc or int() raises on day MinOf(bad); the rows of the
                 \* days before it stay added to the session
                 /\ session_new' = session_new \o SubSeq(rows, 1, MinOf(bad) - 1)
                 /\ UNCHANGED tourism_forecasts
                 /\ BaselineInExcept(island, days_ahead, seen \cup {"convert_raised"},
                                     Append(steps, "predict"),
                                     SubSeq(entries, 1, MinOf(bad) - 1))

\* Lines 83-84 and on: baseline when the registry has no model of the island.
ForecastWith(island, days_ahead, events, steps) ==
    IF island \notin models'
    THEN /\ BaselineInTry(island, days_ahead, events, steps)
         /\ UNCHANGED <<tourism_forecasts, session_new>>
    ELSE PredictAndStore(island, days_ahead, events, steps)

\* ml_engine.py generate_forecast
GenerateForecast(island, days_ahead) ==
    /\ Len(tourism_forecasts) + Len(session_new) + days_ahead <= MaxForecastRows
    /\ IF island \in models
       THEN /\ UNCHANGED <<models, model_files>>
            /\ ForecastWith(island, days_ahead, {}, <<>>)
       ELSE \/ \* joblib.load gives the persisted model
               /\ island \in model_files
               /\ models' = models \cup {island}
               /\ UNCHANGED model_files
               /\ ForecastWith(island, days_ahead, {}, <<"load">>)
            \/ \* joblib.load raises: no file, or one it cannot read
               \E env \in TrainEnvs :
                  LET trained == TrainProphetModel(island, env)
                  IN  /\ models' = trained.models
                      /\ model_files' = trained.model_files
                      /\ ForecastWith(island, days_ahead,
                            {"load_failed"} \cup
                            (IF trained.returned THEN {} ELSE {"train_returned_none"}),
                            <<"load", "train">>)
    /\ UNCHANGED <<today, fprev, now, analytics_cache, pc, cur, last, db_faulty>>
    /\ UNCHANGED storeVars

\* MLEngine(db) on a new session (routes/analytics.py forecast-preview, one
\* per request): an empty registry; what the old session had added and not
\* committed is gone with it.
NewEngine ==
    /\ models' = {}
    /\ session_new' = <<>>
    /\ UNCHANGED <<today, model_files, tourism_forecasts, fret, fprev>>
    /\ UNCHANGED <<now, analytics_cache, pc, cur, last, db_faulty>>
    /\ UNCHANGED storeVars

vars == <<now, visitor_arrivals, hotel_occupancy, economic_indicators,
          analytics_cache, pc, cur, last, db_faulty,
          today, models, model_files, tourism_forecasts, session_new, fret, fprev>>

ForecastIdle ==
    /\ models = {}
    /\ model_files = {}
    /\ tourism_forecasts = <<>>
    /\ session_new = <<>>
    /\ fret = NoForecast
    /\ fprev = NoForecast

Init ==
    /\ InitCache
    /\ today = 6
    /\ ForecastIdle

Next ==
    \/ \E w \in Workers, body \in Bodies : ProcessQueryBegin(w, body)
    \/ \E w \in Workers : ProcessQueryEnd(w)
    \/ Tick

Spec == Init /\ [][Next]_vars

\* The forecast engine alone, over a store with or without arrivals.
InitForecast ==
    /\ now = 0
    /\ visitor_arrivals \in {<<>>, SeededArrivals}
    /\ hotel_occupancy = SeededOccupancy
    /\ economic_indicators = SeededIndicators
    /\ analytics_cache = <<>>
    /\ pc = [w \in Workers |-> "idle"]
    /\ cur = [w \in Workers |-> NoCall]
    /\ last = NoCall
    /\ db_faulty = FALSE
    /\ today \in TodayChoices
    /\ ForecastIdle

NextForecast ==
    \/ \E island \in ForecastIslands, days_ahead \in 1..MaxDaysAhead :
          GenerateForecast(island, days_ahead)
    \/ NewEngine

SpecForecast == InitForecast /\ [][NextForecast]_vars

\* generate_baseline_forecast called by itself: the call before moves to
\* `fprev`.
GenerateBaseline(island, days_ahead) ==
    /\ BaselineInExcept(island, days_ahead, {}, <<>>, <<>>)
    /\ fprev' = fret
    /\ UNCHANGED <<today, models, model_files, tourism_forecasts, session_new>>
    /\ UNCHANGED <<now, analytics_cache, pc, cur, last, db_faulty>>
    /\ UNCHANGED storeVars

\* Days pass: date.today() is a later one of the dates.
DaysPass ==
    /\ \E d \in TodayChoices : d > today /\ today' = d
    /\ UNCHANGED <<models, model_files, tourism_forecasts, session_new, fret, fprev>>
    /\ UNCHANGED <<now, analytics_cache, pc, cur, last, db_faulty>>
    /\ UNCHANGED storeVars

NextBaseline ==
    \/ \E island \in ForecastIslands, days_ahead \in 1..MaxDaysAhead :
          GenerateBaseline(island, days_ahead)
    \/ DaysPass

\* Arrivals whose trailing average is the same in January and in June.
SeasonArrivals ==
    <<[date |-> 0,   island |-> "Oahu", arrival_count |-> 1200, origin_state |-> "California"],
      [date |-> 150, island |-> "Oahu", arrival_count |-> 1200, origin_state |-> "Texas"],
      [date |-> 151, island |-> "Maui", arrival_count |-> 800,  origin_state |-> None]>>

InitBaseline ==
    /\ now = 0
    /\ visitor_arrivals \in {<<>>, SeededArrivals, SeasonArrivals}
    /\ hotel_occupancy = SeededOccupancy
    /\ economic_indicators = SeededIndicators
    /\ analytics_cache = <<>>
    /\ pc = [w \in Workers |-> "idle"]
    /\ cur = [w \in Workers |-> NoCall]
    /\ last = NoCall
    /\ db_faulty = FALSE
    /\ today \in TodayChoices
    /\ ForecastIdle

SpecBaseline == InitBaseline /\ [][NextBaseline]_vars

\* One server process: the calls follow one another.
NextSeq ==
    \/ \E body \in Bodies : ProcessQueryBegin("w1", body)
    \/ ProcessQueryEnd("w1")
    \/ Tick

SpecSeq == Init /\ [][NextSeq]_vars

\* Requests that differ in the order of their lists only, and one that
\* names fewer locations.
OrderBodies ==
    {<<<<"start_date", 0>>, <<"end_date", 40>>, <<"islands", <<"Oahu", "Maui">>>>,
       <<"metrics", <<"arrivals", "spending">>>>>>,
     <<<<"start_date", 0>>, <<"end_date", 40>>, <<"islands", <<"Maui", "Oahu">>>>,
       <<"metrics", <<"spending", "arrivals">>>>>>,
     <<<<"start_date", 0>>, <<"end_date", 40>>, <<"islands", <<"Oahu">>>>,
       <<"metrics", <<"arrivals", "spending">>>>>>}

NextOrder ==
    \/ \E body \in OrderBodies : ProcessQueryBegin("w1", body)
    \/ ProcessQueryEnd("w1")
    \/ Tick

SpecOrder == Init /\ [][NextOrder]_vars

\* One server process over a database that raises at will.
InitFault ==
    /\ now = 0
    /\ visitor_arrivals = SeededArrivals
    /\ hotel_occupancy = SeededOccupancy
    /\ economic_indicators = SeededIndicators
    /\ analytics_cache = <<>>
    /\ pc = [w \in Workers |-> "idle"]
    /\ cur = [w \in Workers |-> NoCall]
    /\ last = NoCall
    /\ db_faulty = TRUE
    /\ today = 6
    /\ ForecastIdle

SpecFault == InitFault /\ [][NextSeq]_vars

\* ----------------------------------------------------- a month of records
\* January 2024 as the collector left it: 1000 arrivals a day on Oahu, a day
\* of Maui arrivals, a record after the month; three Oahu occupancy records
\* and one of Maui.
JanuaryArrivals ==
    [k \in 1..31 |-> [date |-> k - 1, island |-> "Oahu",
                      origin_state |-> "California", arrival_count |-> 1000]]
    \o <<[date |-> 3, island |-> "Maui", origin_state |-> "Texas", arrival_count |-> 900],
          [date |-> 31, island |-> "Oahu", origin_state |-> None, arrival_count |-> 400]>>

JanuaryOccupancy ==
    <<[date |-> 0, island |-> "Oahu", occupancy_rate |-> 700, adr |-> 25000],
      [date |-> 1, island |-> "Oahu", occupancy_rate |-> 800, adr |-> 26000],
      [date |-> 2, island |-> "Oahu", occupancy_rate |-> 900, adr |-> 27000],
      [date |-> 1, island |-> "Maui", occupancy_rate |-> 500, adr |-> 35000]>>

\* Requests over the month: arrivals of Oahu by day, arrivals of every island
\* by month, occupancy of Oahu, and every metric over two days without records.
MonthBodies ==
    {<<<<"start_date", 0>>, <<"end_date", 30>>, <<"islands", <<"Oahu">>>>,
       <<"metrics", <<"arrivals">>>>, <<"group_by", "day">>>>,
     <<<<"start_date", 0>>, <<"end_date", 40>>, <<"metrics", <<"arrivals">>>>>>,
     <<<<"start_date", 0>>, <<"end_date", 30>>, <<"islands", <<"Oahu">>>>,
       <<"metrics", <<"occupancy">>>>>>,
     <<<<"start_date", 100>>, <<"end_date", 101>>>>}

InitData ==
    /\ now = 0
    /\ \/ /\ visitor_arrivals = JanuaryArrivals
          /\ hotel_occupancy = JanuaryOccupancy
       \/ /\ visitor_arrivals = SeededArrivals
          /\ hotel_occupancy = SeededOccupancy
    /\ economic_indicators = SeededIndicators
    /\ analytics_cache = <<>>
    /\ pc = [w \in Workers |-> "idle"]
    /\ cur = [w \in Workers |-> NoCall]
    /\ last = NoCall
    /\ db_faulty = FALSE
    /\ today = 6
    /\ ForecastIdle

\* The calls of one server process within one tick of the clock.
NextData ==
    \/ \E body \in MonthBodies : ProcessQueryBegin("w1", body)
    \/ ProcessQueryEnd("w1")

SpecData == InitData /\ [][NextData]_vars

\* Stores for the insight rules.  Spending that falls, stored out of date
\* order, and spending that ends where it began.
SpendingFalling ==
    <<[date |-> 20, visitor_spending_millions |-> 1500],
      [date |-> 0,  visitor_spending_millions |-> 1600]>>

SpendingLevel ==
    <<[date |-> 0,  visitor_spending_millions |-> 1500],
      [date |-> 10, visitor_spending_millions |-> 1700],
      [date |-> 20, visitor_spending_millions |-> 1500]>>

\* Occupancy records of one island with the given rates, a day apart.
OccupancyOf(island, rates) ==
    [k \in 1..Len(rates) |->
        [date |-> k - 1, island |-> island, occupancy_rate |-> rates[k], adr |-> 25000]]

\* Arrival records that count no visitor.
ZeroArrivals ==
    <<[date |-> 0, island |-> "Oahu", arrival_count |-> 0, origin_state |-> "California"],
      [date |-> 1, island |-> "Maui", arrival_count |-> 0, origin_state |-> None]>>

InsightStores ==
    {[a |-> SeededArrivals,  o |-> SeededOccupancy,  e |-> SeededIndicators],
     [a |-> <<>>,            o |-> <<>>,             e |-> <<>>],
     [a |-> ZeroArrivals,    o |-> OccupancyOf("Oahu", <<850, 900>>), e |-> SpendingFalling],
     [a |-> SeededArrivals,  o |-> OccupancyOf("Oahu", <<800>>),      e |-> SpendingLevel],
     [a |-> SeededArrivals,  o |-> OccupancyOf("Maui", <<600>>),      e |-> SeededIndicators],
     [a |-> SeededArrivals,  o |-> OccupancyOf("Oahu", <<800, 800, 801>>), e |-> SeededIndicators],
     [a |-> SeededArrivals,  o |-> OccupancyOf("Oahu", <<500, 550>>), e |-> SpendingFalling],
     [a |-> JanuaryArrivals, o |-> JanuaryOccupancy, e |-> SpendingLevel]}

\* Requests: every metric over six weeks; occupancy and spending of Oahu over
\* a month; every metric over two days without records; arrivals and spending
\* of Oahu.
InsightBodies ==
    {<<<<"start_date", 0>>, <<"end_date", 40>>>>,
     <<<<"start_date", 0>>, <<"end_date", 30>>, <<"islands", <<"Oahu">>>>,
       <<"metrics", <<"occupancy", "spending">>>>>>,
     <<<<"start_date", 100>>, <<"end_date", 101>>>>,
     <<<<"start_date", 0>>, <<"end_date", 40>>, <<"islands", <<"Oahu">>>>,
       <<"metrics", <<"arrivals", "spending">>>>, <<"group_by", "day">>>>}

InitInsight ==
    /\ now = 0
    /\ \E s \in InsightStores :
          /\ visitor_arrivals = s.a
          /\ hotel_occupancy = s.o
          /\ economic_indicators = s.e
    /\ analytics_cache = <<>>
    /\ pc = [w \in Workers |-> "idle"]
    /\ cur = [w \in Workers |-> NoCall]
    /\ last = NoCall
    /\ db_faulty = FALSE
    /\ today = 6
    /\ ForecastIdle

NextInsight ==
    \/ \E body \in InsightBodies : ProcessQueryBegin("w1", body)
    \/ ProcessQueryEnd("w1")

SpecInsight == InitInsight /\ [][NextInsight]_vars

\* ------------------------------------------------------------------ claims

\* C1: whenever a process_query(R) call is made less than 1 hour after an
\* earlier process_query(R) call, it returns exactly that call's payload and
\* runs no analysis pass.  Stated for the plainest pair: two consecutive calls
\* of one server process, the earlier of which computed its result itself.
C1_RepeatWithinTtlIsServedFromCache ==
    [][(/\ last # NoCall
        /\ last' # last
        /\ last'.request = last.request
        /\ last.passes # {}
        /\ last'.start - last.start < CacheTtl)
       => (last'.results = last.results /\ last'.passes = {})]_vars

\* The rows of the cache table with a key, expired ones included.
RowsOf(cache_key) ==
    {i \in 1..Len(analytics_cache) : analytics_cache[i].query_hash = cache_key}

\* The step in which worker w returns from a call that missed the cache.
MissReturns(w) == pc[w] = "caching" /\ pc'[w] = "idle"

\* C2: when process_query(R) runs while the only cache row of R's key has
\* expired, it recomputes and afterwards the table holds a new, additional
\* row for that key, expiring 1 hour after the call, the old row still there
\* and unchanged.
C2_ExpiredRowGetsNewRowBeside ==
    [][\A w \in Workers :
          (/\ MissReturns(w)
           /\ Cardinality(RowsOf(cur[w].cache_key)) = 1
           /\ \A i \in RowsOf(cur[w].cache_key) :
                 analytics_cache[i].expires_at <= cur[w].start)
          => (/\ Len(analytics_cache') = Len(analytics_cache) + 1
              /\ SubSeq(analytics_cache', 1, Len(analytics_cache)) = analytics_cache
              /\ analytics_cache'[Len(analytics_cache')] =
                    [query_hash |-> cur[w].cache_key, results |-> cur[w].results,
                     expires_at |-> now + CacheTtl])]_vars

\* C3: a process_query that finds a row with its key and expires_at > now
\* returns that row's payload unchanged, runs no analysis pass and leaves the
\* cache table and every other table as they were.
C3_HitReturnsStoredPayloadAndChangesNothing ==
    [][\A w \in Workers, body \in Bodies :
          (/\ ProcessQueryBegin(w, body)
           /\ ValidRows(GenerateCacheKey(ParseRequest(body))) # {})
          => (/\ last'.request = ParseRequest(body)
              /\ last'.results \in
                    {analytics_cache[i].results :
                        i \in ValidRows(GenerateCacheKey(ParseRequest(body)))}
              /\ last'.passes = {}
              /\ analytics_cache' = analytics_cache
              /\ UNCHANGED storeVars)]_vars

\* C3 witness: a call was served from a row written by an earlier call.
C3_Witness ==
    /\ last # NoCall
    /\ last.passes = {}
    /\ \E i \in ValidRows(GenerateCacheKey(last.request)) :
          analytics_cache[i].results = last.results

\* C4: every process_query call that is not served from the cache adds exactly
\* one row to the cache table, keyed by the request's key and holding the
\* returned result.
C4_EveryMissAddsOneRow ==
    [][\A w \in Workers :
          MissReturns(w)
          => (/\ Len(analytics_cache') = Len(analytics_cache) + 1
              /\ analytics_cache'[Len(analytics_cache')].query_hash = cur[w].cache_key
              /\ analytics_cache'[Len(analytics_cache')].results = last'.results)]_vars

\* C5: in every reachable state the cache table holds at most one row per
\* query key.
C5_AtMostOneRowPerKey ==
    \A i, j \in 1..Len(analytics_cache) :
        analytics_cache[i].query_hash = analytics_cache[j].query_hash => i = j

\* C5 witness: a call recomputed after the row of its key had expired and has
\* returned, its key still having one row.
C5_Witness ==
    /\ last # NoCall
    /\ last.passes # {}
    /\ \E i \in RowsOf(GenerateCacheKey(last.request)) :
          analytics_cache[i].expires_at <= last.start

\* C6: no step deletes a cache row or changes the key, payload or expiry of
\* an existing one.
C6_RowsAreNeverDeletedOrChanged ==
    [][/\ Len(analytics_cache') >= Len(analytics_cache)
       /\ SubSeq(analytics_cache', 1, Len(analytics_cache)) = analytics_cache]_vars

\* C6 witness: a row that has expired is still in the table after a later
\* call for its key wrote its result.
C6_Witness ==
    /\ last # NoCall
    /\ last.passes # {}
    /\ \E i \in RowsOf(GenerateCacheKey(last.request)) :
          /\ analytics_cache[i].expires_at <= now
          /\ analytics_cache[i].results.generated_at < last.start

ReturnedList == fret # NoForecast /\ fret.path \in {"prophet", "baseline"}

Persisted(entry) ==
    \E i \in 1..Len(tourism_forecasts) :
        /\ tourism_forecasts[i].target_date = entry.date
        /\ tourism_forecasts[i].island = entry.island
        /\ tourism_forecasts[i].predicted_arrivals = entry.predicted_arrivals
        /\ tourism_forecasts[i].confidence_lower = entry.confidence_lower
        /\ tourism_forecasts[i].confidence_upper = entry.confidence_upper

\* C9: after a generate_forecast call that returns a list, the forecast
\* history table has a record for each returned daily prediction (same target
\* date, island, predicted value and bounds), on the model path and on the
\* baseline path.
C9_EveryReturnedPredictionIsPersisted ==
    ReturnedList => \A k \in 1..Len(fret.forecast) : Persisted(fret.forecast[k])

\* C10: when on-demand training (after a failed load) fails or yields no
\* model, or the model's prediction raises, generate_forecast returns the
\* baseline's list of days_ahead predictions and raises nothing to its caller.
C10_FailuresFallBackToBaseline ==
    /\ fret # NoForecast
    /\ fret.events \cap {"train_returned_none", "predict_raised"} # {}
    => /\ fret.path = "baseline"
       /\ Len(fret.forecast) = fret.days_ahead

\* ------------------------------------------------------------------ faults
\* C11: when the cache write of process_query raises (the insert or the
\* commit), the call still returns its freshly computed result, raises
\* nothing, and the cache table is as it was before the write.
C11_WriteFailureIsSwallowed ==
    [][\A w \in Workers :
          MissReturns(w) /\ last'.fault = "write"
          => /\ last'.request = cur[w].request
             /\ last'.results = cur[w].results
             /\ last'.results # QueryFailure
             /\ analytics_cache' = analytics_cache]_vars

\* A call returned its result although its write raised on an empty table
\* (not a breach of the unique index).
C11_Witness ==
    /\ last # NoCall
    /\ last.fault = "write"
    /\ last.results # QueryFailure
    /\ "generate_insights" \in last.passes
    /\ analytics_cache = <<>>

\* C12: when a store query of an uncached process_query raises, in whichever
\* requested metric block, the caller gets a failure and no result, partial
\* or whole, and no cache row is written for the request.
C12_QueryFailureReachesTheCaller ==
    [][last' # last /\ last'.fault = "query"
       => /\ last'.results = QueryFailure
          /\ analytics_cache' = analytics_cache
          /\ pc' = pc]_vars

\* The spending query raised after the arrivals block had been computed.
C12_Witness ==
    /\ last # NoCall
    /\ last.fault = "query"
    /\ last.passes = {"analyze_arrivals", "analyze_spending"}
    /\ last.results = QueryFailure

\* --------------------------------------------------------------- aggregates
\* The last call returned a result with a block for metric m.
HasBlock(m) ==
    /\ last # NoCall
    /\ last.results # QueryFailure
    /\ m \in DOMAIN last.results.data

\* The records of a table within the date range of the last call's request.
InDates(table) ==
    {i \in 1..Len(table) :
        /\ table[i].date >= last.request.start_date
        /\ table[i].date <= last.request.end_date}

\* Those of them that are of the request's locations, when it names any.
InDatesAndPlaces(table) ==
    {i \in InDates(table) :
        \/ last.request.islands = <<>>
        \/ \E j \in 1..Len(last.request.islands) :
              last.request.islands[j] = table[i].island}

MetricTable(m) ==
    CASE m = "arrivals"  -> visitor_arrivals
      [] m = "occupancy" -> hotel_occupancy
      [] m = "spending"  -> economic_indicators

\* C13: for each requested metric with no record in the requested date
\* range, the metric's block of the result is an explicit no-data marker, not
\* a block of zero-valued aggregates.
C13_EmptyRangeGivesNoDataMarker ==
    \A m \in Metrics :
        HasBlock(m) /\ InDates(MetricTable(m)) = {}
        => "error" \in DOMAIN last.results.data[m]

\* The sum of a column over the records idx of a table.
RECURSIVE SumOver(_, _, _)
SumOver(table, idx, column) ==
    IF idx = {} THEN 0
    ELSE LET i == CHOOSE i \in idx : TRUE
         IN  table[i][column] + SumOver(table, idx \ {i}, column)

\* The (date-or-month, location) groups of the arrival records idx.
ArrivalGroups(idx) ==
    {IF last.request.group_by = "month"
     THEN <<Year(visitor_arrivals[i].date), Month(visitor_arrivals[i].date),
            visitor_arrivals[i].island>>
     ELSE <<0, visitor_arrivals[i].date, visitor_arrivals[i].island>> : i \in idx}

\* The request of the 31-day scenario.
JanuaryOahuByDay ==
    /\ visitor_arrivals = JanuaryArrivals
    /\ last.request.start_date = 0
    /\ last.request.end_date = 30
    /\ last.request.islands = <<"Oahu">>
    /\ last.request.group_by = "day"

\* C19: in the arrivals block, total_arrivals is the sum of arrival_count
\* over the records within the date range and of the requested locations,
\* and average_daily_arrivals is that total divided by the number of
\* (date-or-month, location) groups; 31 daily groups of 1000 arrivals on Oahu
\* give 31000 and 1000.
C19_ArrivalTotalsAndAverage ==
    HasBlock("arrivals") =>
        LET block  == last.results.data["arrivals"]
            idx    == InDatesAndPlaces(visitor_arrivals)
            total  == SumOver(visitor_arrivals, idx, "arrival_count")
            groups == Cardinality(ArrivalGroups(idx))
        IN  /\ block.total_arrivals = total
            /\ groups > 0 =>
                  block.average_daily_arrivals.num * groups
                      = total * block.average_daily_arrivals.den
            /\ JanuaryOahuByDay =>
                  /\ groups = 31
                  /\ block.total_arrivals = 31000
                  /\ block.average_daily_arrivals = [num |-> 1000, den |-> 1]

\* The 31-day scenario was asked and answered.
C19_Witness ==
    /\ HasBlock("arrivals")
    /\ JanuaryOahuByDay
    /\ Len(last.results.data["arrivals"].time_series) = 31

\* C20: in the occupancy block, average_occupancy, peak_occupancy and
\* low_occupancy are the mean (to one decimal), the maximum and the minimum of
\* occupancy_rate over the records that pass the filter of the time series:
\* within the date range and, when the request names locations, of them.
C20_OccupancyStatsUseTheSameFilter ==
    HasBlock("occupancy") =>
        LET block == last.results.data["occupancy"]
            idx   == InDatesAndPlaces(hotel_occupancy)
            rates == {hotel_occupancy[i].occupancy_rate : i \in idx}
        IN  idx # {} =>
              /\ block.average_occupancy =
                     RoundDiv(SumOver(hotel_occupancy, idx, "occupancy_rate"),
                              Cardinality(idx))
              /\ block.peak_occupancy = MaxOf(rates)
              /\ block.low_occupancy = MinOf(rates)

\* ------------------------------------------------------------------- races
\* A row of the key of worker w's call was written after that call looked
\* the key up and missed: by a concurrent call, which had missed as well.
WrittenDuring(w) ==
    \E i \in 1..Len(analytics_cache) :
        /\ analytics_cache[i].query_hash = cur[w].cache_key
        /\ analytics_cache[i].expires_at - CacheTtl >= cur[w].start

\* C14: when two concurrent process_query calls with one fingerprint both
\* miss before either writes, both writes complete: the table afterwards holds
\* two rows with the fingerprint, one from each call, and neither call fails.
C14_RacingCallsBothWriteTheirRow ==
    [][\A w \in Workers :
          MissReturns(w) /\ WrittenDuring(w)
          => /\ last'.results = cur[w].results
             /\ Cardinality(
                   {i \in 1..Len(analytics_cache') :
                       /\ analytics_cache'[i].query_hash = cur[w].cache_key
                       /\ analytics_cache'[i].expires_at - CacheTtl >= cur[w].start})
                >= 2]_vars

\* C15: when the model's frame has fewer rows than days_ahead, the model path
\* still returns days_ahead entries, and the days the frame does not cover,
\* the last day among them, carry the padding triple 5000 / 4500 / 5500
\* (calls in which the store itself fails are left aside).
C15_ShortSeriesIsPadded ==
    (fret # NoForecast /\ "short_frame" \in fret.events /\ fret.path # "raised") =>
        /\ fret.path = "prophet"
        /\ Len(fret.forecast) = fret.days_ahead
        /\ LET e == fret.forecast[fret.days_ahead]
           IN  /\ e.predicted_arrivals = PAD_PREDICTED
               /\ e.confidence_lower = PAD_LOWER
               /\ e.confidence_upper = PAD_UPPER

\* The jitters 0.95 + 0.1 * random() can take, in thousandths.
JitterRange == 950..1050

\* C17: a generate_forecast call for an island with no arrival record at all
\* returns the baseline list computed from the default 5000: each day's
\* prediction is int(5000 * seasonal * weekend * jitter) for a jitter in
\* [0.95, 1.05], with bounds int(0.85 * predicted) and int(1.15 * predicted).
C17_NoHistoryUsesTheDefaultAverage ==
    (fret # NoForecast /\ History(fret.island) = <<>> /\ fret.path # "raised") =>
        /\ fret.path = "baseline"
        /\ Len(fret.forecast) = fret.days_ahead
        /\ \A k \in 1..fret.days_ahead :
              LET e == fret.forecast[k]
                  d == today + (k - 1)
              IN  /\ e.date = d
                  /\ \E j \in JitterRange :
                        e.predicted_arrivals =
                            (5000 * SeasonalFactor(d) * WeekendFactor(d) * j) \div 100000
                  /\ e.confidence_lower = (e.predicted_arrivals * 85) \div 100
                  /\ e.confidence_upper = BaselineUpper(e.predicted_arrivals)

\* A list for an island without records: 5000 * 1.2 * 1.1 * 0.95 = 6270 on
\* a January Sunday.
C17_Witness ==
    /\ fret # NoForecast
    /\ History(fret.island) = <<>>
    /\ fret.path = "baseline"
    /\ fret.days_ahead = 2
    /\ fret.forecast[1].predicted_arrivals = 6270
    /\ fret.forecast[1].confidence_lower = 5329

\* A direct generate_baseline_forecast call that returned its list.
BaselineList(f) == f # NoForecast /\ f.path = "baseline"

\* The two calls are for the same island and met the same trailing average.
SameAverage(f, g) ==
    /\ f.island = g.island
    /\ LET r == RecentDataAt(f.island, f.forecast[1].date)
           q == RecentDataAt(g.island, g.forecast[1].date)
       IN  r[1] * q[2] = q[1] * r[2]

Winter(d) == Month(d) \in {12, 1, 2}
Summer(d) == Month(d) \in {6, 7, 8}

PredictedSum(f) ==
    SumSeq([k \in 1..Len(f.forecast) |-> f.forecast[k].predicted_arrivals])

\* C16: with the trailing average held fixed and whatever the jitters are, a
\* list of December/January/February predictions averages at least as much
\* as a list of June/July/August predictions.
C16_WinterAveragesAtLeastSummer ==
    (/\ BaselineList(fprev) /\ BaselineList(fret) /\ SameAverage(fprev, fret)
     /\ \A k \in 1..Len(fprev.forecast) : Winter(fprev.forecast[k].date)
     /\ \A k \in 1..Len(fret.forecast) : Summer(fret.forecast[k].date)) =>
        PredictedSum(fprev) * Len(fret.forecast) >= PredictedSum(fret) * Len(fprev.forecast)

\* C16 as the code has it: with the trailing average held fixed, the
\* prediction of a December/January/February day is at least that of a
\* June/July/August day when the two days drew the same jitter and are both
\* weekend days or both weekdays.
C16_WinterDayAtLeastSummerDay ==
    (BaselineList(fprev) /\ BaselineList(fret) /\ SameAverage(fprev, fret)) =>
        \A k \in 1..Len(fprev.forecast), l \in 1..Len(fret.forecast) :
            LET w == fprev.forecast[k]
                s == fret.forecast[l]
            IN  (/\ Winter(w.date) /\ Summer(s.date)
                 /\ fprev.jitter[k] = fret.jitter[l]
                 /\ (Weekday(w.date) >= 5) = (Weekday(s.date) >= 5)) =>
                    w.predicted_arrivals >= s.predicted_arrivals

\* A January list and a June list from stored arrivals of equal trailing
\* average, the same jitter: Sunday against Sunday, 1504 against 1379.
C16_Witness ==
    /\ BaselineList(fprev) /\ BaselineList(fret) /\ SameAverage(fprev, fret)
    /\ visitor_arrivals # <<>>
    /\ fprev.days_ahead = 2 /\ fret.days_ahead = 2
    /\ Winter(fprev.forecast[1].date) /\ Summer(fret.forecast[1].date)
    /\ fprev.jitter = fret.jitter
    /\ fprev.forecast[1].predicted_arrivals > fret.forecast[1].predicted_arrivals

\* Two direct calls with the same island, the same days_ahead, the same
\* current date and, the store being fixed, the same store contents.
SameCall(f, g) ==
    /\ BaselineList(f) /\ BaselineList(g)
    /\ f.island = g.island
    /\ f.days_ahead = g.days_ahead
    /\ f.forecast[1].date = g.forecast[1].date

WithinJitter(p, q) ==
    /\ 950 * p < 1050 * (q + 1)
    /\ 950 * q < 1050 * (p + 1)

OfOrigin(idx, state) == {i \in idx : visitor_arrivals[i].origin_state = state}

\* C21: top_origins of an arrivals block lists at most 10 origins in
\* non-increasing order of their totals, and each total is the sum of
\* arrival_count over the records of that origin within the date range and,
\* when the request names locations, of those locations.
C21_TopOriginsUseTheRequestsFilter ==
    HasBlock("arrivals") =>
        LET top == last.results.data["arrivals"].top_origins
            idx == InDatesAndPlaces(visitor_arrivals)
        IN  /\ Len(top) <= 10
            /\ \A k \in 1..(Len(top) - 1) : top[k].arrivals >= top[k + 1].arrivals
            /\ \A k \in 1..Len(top) :
                  /\ top[k].state # None
                  /\ OfOrigin(idx, top[k].state) # {}
                  /\ top[k].arrivals =
                        SumOver(visitor_arrivals, OfOrigin(idx, top[k].state), "arrival_count")

\* ----------------------------------------------------------------- insights
\* The record of idx with the earliest date, and the one with the latest
\* (the stores hold one spending record a date).
Earliest(idx) == CHOOSE i \in idx : \A j \in idx : economic_indicators[i].date <= economic_indicators[j].date
Latest(idx) == CHOOSE i \in idx : \A j \in idx : economic_indicators[i].date >= economic_indicators[j].date

\* C22: a spending block over at least one record has spending_trend
\* "increasing" exactly when the latest-dated record's spending is strictly
\* greater than the earliest-dated record's, and "stable" otherwise; over no
\* record the block is the no-data marker.
C22_TrendComparesLatestWithEarliest ==
    HasBlock("spending") =>
        LET block == last.results.data["spending"]
            idx   == InDates(economic_indicators)
        IN  IF idx = {}
            THEN "error" \in DOMAIN block
            ELSE /\ "error" \notin DOMAIN block
                 /\ block.spending_trend =
                        IF economic_indicators[Latest(idx)].visitor_spending_millions
                             > economic_indicators[Earliest(idx)].visitor_spending_millions
                        THEN "increasing" ELSE "stable"

\* Falling spending, stored latest record first, was labelled "stable".
C22_Witness ==
    /\ HasBlock("spending")
    /\ economic_indicators = SpendingFalling
    /\ Cardinality(InDates(economic_indicators)) = 2
    /\ last.results.data["spending"].spending_trend = "stable"

\* The last call returned a result (not a failure).
HasResult == last # NoCall /\ last.results # QueryFailure

\* The place of a sentence in the fixed order.
KindRank(kind) ==
    CASE kind = "top_origin"        -> 1
      [] kind = "high_occupancy"    -> 2
      [] kind = "low_occupancy"     -> 2
      [] kind = "spend_per_visitor" -> 3
      [] kind = "avg_daily"         -> 4

\* C23: the insights of every result are a subsequence of top-origin,
\* occupancy, spend-per-visitor, average-daily-arrivals in that order, each
\* kind at most once, and the average-daily-arrivals sentence is there if and
\* only if arrivals was a requested metric.
C23_InsightsKeepTheFixedOrder ==
    HasResult =>
        LET insights == last.results.insights
        IN  /\ \A k \in 1..(Len(insights) - 1) :
                  KindRank(insights[k].kind) < KindRank(insights[k + 1].kind)
            /\ (\E k \in 1..Len(insights) : insights[k].kind = "avg_daily")
                  <=> "arrivals" \in Range(last.request.metrics)

\* A result with all four sentences.
C23_Witness ==
    /\ HasResult
    /\ Len(last.results.insights) = 4
    /\ last.results.insights[2].kind = "low_occupancy"

\* The result's insights have a sentence of the kind.
HasSentence(kind) ==
    \E k \in 1..Len(last.results.insights) : last.results.insights[k].kind = kind

\* C24: with occupancy requested, the high-demand sentence is emitted exactly
\* when the average occupancy of the matching records (in the date range and
\* of the request's locations) is > 80, the marketing sentence exactly when it
\* is < 60, and none otherwise; without a matching record there is no
\* occupancy sentence.  Rates are in tenths of a percent.
C24_OccupancySentenceFollowsTheAverage ==
    HasBlock("occupancy") =>
        LET idx == InDatesAndPlaces(hotel_occupancy)
            n   == Cardinality(idx)
            sum == SumOver(hotel_occupancy, idx, "occupancy_rate")
        IN  /\ HasSentence("high_occupancy") <=> (n > 0 /\ sum > 800 * n)
            /\ HasSentence("low_occupancy") <=> (n > 0 /\ sum < 600 * n)

\* C25: process_query never fails because of a zero divisor: over no arrival
\* group average_daily_arrivals is 0, over no spending record no spending
\* average is computed, and when total_arrivals is 0 or the spending block
\* has no total the spend-per-visitor sentence is left out.
C25_NoZeroDivisorFailure ==
    last # NoCall =>
        /\ last.fault # "division"
        /\ last.results # QueryFailure
        /\ HasBlock("arrivals") =>
              LET arrivals == last.results.data["arrivals"]
              IN  arrivals.time_series = <<>> =>
                      arrivals.average_daily_arrivals = [num |-> 0, den |-> 1]
        /\ (HasBlock("spending") /\ InDates(economic_indicators) = {}) =>
              "average_monthly_spending_millions" \notin DOMAIN last.results.data["spending"]
        /\ (HasBlock("arrivals") /\ HasBlock("spending")) =>
              ((\/ last.results.data["arrivals"].total_arrivals = 0
                \/ "total_spending_millions" \notin DOMAIN last.results.data["spending"])
               => ~HasSentence("spend_per_visitor"))

\* Every metric asked of a store whose arrival records count no visitor:
\* spending has its total, and the spend-per-visitor sentence is left out.
C25_Witness ==
    /\ HasBlock("arrivals") /\ HasBlock("spending")
    /\ visitor_arrivals = ZeroArrivals
    /\ last.results.data["arrivals"].time_series # <<>>
    /\ last.results.data["arrivals"].total_arrivals = 0
    /\ last.results.data["spending"].total_spending_millions > 0
    /\ ~HasSentence("spend_per_visitor")

\* ------------------------------------------------------------ forecast path
\* How often a step occurs among the steps of the last call.
StepCount(step) == Cardinality({k \in 1..Len(fret.steps) : fret.steps[k] = step})

\* The steps that may come before a step within one call.
MayPrecede(step) ==
    CASE step = "load"     -> {}
      [] step = "train"    -> {"load"}
      [] step = "predict"  -> {"load", "train"}
      [] step = "baseline" -> {"load", "train", "predict", "baseline"}

\* The entry carries values the model gives for some day, clamped.
ModelDerived(e) ==
    \E row \in PredictRows :
        /\ e.predicted_arrivals = Max(0, IntOf(row.yhat, 2))
        /\ e.confidence_lower = Max(0, IntOf(row.yhat_lower, 2))
        /\ e.confidence_upper = Max(0, IntOf(row.yhat_upper, 2))

\* The entry carries the baseline heuristic's value for its day.
BaselineDerived(e) ==
    LET r == RecentDataAt(fret.island, today)
    IN  \E j \in JitterRange :
            e.predicted_arrivals =
                (r[1] * SeasonalFactor(e.date) * WeekendFactor(e.date) * j)
                    \div (r[2] * 100000)

\* C26: a generate_forecast call loads at most once, trains at most once and
\* predicts at most once, in that order and without going back; and its list
\* is model-derived in every entry or baseline-derived in every entry.
C26_OneStrategyPerCall ==
    fret # NoForecast =>
        /\ StepCount("load") <= 1
        /\ StepCount("train") <= 1
        /\ StepCount("predict") <= 1
        /\ \A k \in 1..Len(fret.steps), l \in 1..Len(fret.steps) :
              k < l => fret.steps[k] \in MayPrecede(fret.steps[l])
        /\ \/ \A k \in 1..Len(fret.forecast) : ModelDerived(fret.forecast[k])
           \/ \A k \in 1..Len(fret.forecast) : BaselineDerived(fret.forecast[k])

\* A call that loaded, trained, predicted, staged its first day, failed on
\* the second and returned the baseline list.
C26_Witness ==
    /\ fret # NoForecast
    /\ fret.path = "baseline"
    /\ fret.steps = <<"load", "train", "predict", "baseline">>
    /\ "convert_raised" \in fret.events
    /\ fret.days_ahead = 2
    /\ session_new # <<>>

\* C27: when the training run of a generate_forecast call returned None (no
\* historical data, fit raised, or persisting the model raised), the registry
\* holds no model of the island afterwards and the call takes the baseline
\* path.
C27_FailedTrainingLeavesNoModel ==
    (fret # NoForecast /\ "train_returned_none" \in fret.events) =>
        /\ fret.island \notin models
        /\ "predict" \notin Range(fret.steps)
        /\ fret.path # "prophet"

\* C28: forecast persistence is all-or-nothing per call: a generate_forecast
\* call adds to the forecast history table one record for each of its
\* days_ahead target dates, or none; records a call staged before falling
\* back are never committed by a later call.
C28_CallsPersistAllOrNothing ==
    [][tourism_forecasts' # tourism_forecasts =>
         /\ Len(tourism_forecasts') = Len(tourism_forecasts) + fret'.days_ahead
         /\ \A k \in 1..fret'.days_ahead :
               LET row == tourism_forecasts'[Len(tourism_forecasts) + k]
               IN  /\ row.island = fret'.island
                   /\ row.target_date = today + (k - 1)]_vars

\* ------------------------------------------------------------ cache, again
\* C29: caching recovers after expiry: when a process_query call computed its
\* result at a time the fingerprint's earlier cache row had expired, the next
\* call for the fingerprint, made less than 1 hour later, is served from the
\* cache.
C29_CachingRecoversAfterExpiry ==
    [][(/\ last # NoCall
        /\ last' # last
        /\ last'.request = last.request
        /\ last.passes # {}
        /\ \E i \in RowsOf(GenerateCacheKey(last.request)) :
              analytics_cache[i].expires_at <= last.start
        /\ last'.start - last.start < CacheTtl)
       => (last'.passes = {} /\ last'.results = last.results)]_vars

\* The two requests are equal when their lists are read as sets.
SameAsSets(r, q) ==
    /\ r.start_date = q.start_date
    /\ r.end_date = q.end_date
    /\ r.group_by = q.group_by
    /\ Range(r.islands) = Range(q.islands)
    /\ Range(r.metrics) = Range(q.metrics)

\* C30: requests that differ only in the order of their islands and metrics
\* lists have the same fingerprint, and the later one is served from the
\* earlier one's cache row while that row is valid.
C30_ListOrderDoesNotChangeTheFingerprint ==
    /\ \A i, j \in 1..Len(analytics_cache) :
          SameAsSets(analytics_cache[i].results.request, analytics_cache[j].results.request)
          => analytics_cache[i].query_hash = analytics_cache[j].query_hash
    /\ \A i \in 1..Len(analytics_cache) :
          (/\ last # NoCall
           /\ SameAsSets(last.request, analytics_cache[i].results.request)
           /\ last.request # analytics_cache[i].results.request
           /\ analytics_cache[i].expires_at > last.start)
          => last.passes = {}

====
